---- MODULE Spec2Model ----
(***************************************************************************)
(* Model of src/main.py: the Obsidian Markdown -> PDF converter.           *)
(*                                                                         *)
(*   - text is a sequence of one-character strings, so that the regular    *)
(*     expressions of preprocess_obsidian and transform_callouts are       *)
(*     evaluated character by character, as Python's re module does;       *)
(*   - a path is the sequence of its parts (pathlib's Path.parts), each    *)
(*     part a sequence of characters; the root part is <<"/">>;            *)
(*   - Spec is the window and its conversion worker, AutoSpec the same     *)
(*     window with the base folder never picked by hand, PathSpec applies  *)
(*     the output path resolver to enumerated requests, TextSpec runs the  *)
(*     text pipeline on enumerated documents.                              *)
(***************************************************************************)
EXTENDS Integers, Sequences, FiniteSets, TLC

VARIABLES
    files,         \* MainWindow.files
    preserve,      \* chk_preserve.isChecked() (kept equal to preserve_structure)
    ed_base,       \* ed_base.text(): NoPath when the field is empty
    busy,          \* _set_busy: the controls are disabled
    task,          \* the ConvertTask handed to the pool, NoTask when none
    pc,            \* position of ConvertTask.run
    idx,           \* the loop variable i of run (1-based)
    results,       \* the local list results of run
    output_pdf,    \* the local output_pdf of run, NoPath before convert_one returns
    emitted,       \* signals emitted by the task, in emission order
    calls,         \* external operations run has started, in order
    delivered,     \* number of emitted signals the window's slots have handled
    progress_val,  \* progress.value()
    resolver,      \* PathSpec: one resolver request and its answer
    pipeline       \* TextSpec: one document going through the text pipeline

vars == <<files, preserve, ed_base, busy, task, pc, idx, results, output_pdf,
          emitted, calls, delivered, progress_val, resolver, pipeline>>

uiVars == <<files, preserve, ed_base, busy, progress_val>>
runVars == <<task, pc, idx, results, output_pdf, emitted, calls, delivered>>

-----------------------------------------------------------------------------
(* Bounds of the model *)

\* longest file list the window is driven to
MaxFiles == 2
\* most paths one file dialog or drop hands to _add_files
MaxPick == 2
\* body lines following the first line of a document
MaxBody == 1
\* nested quotes inside a quoted document
MaxNested == 2

-----------------------------------------------------------------------------
(* Characters and sequences *)

CR == "\r"
LF == "\n"
TAB == "\t"
QUOTE == "\""
BACKSLASH == "\\"

UpperChars == <<"A","B","C","D","E","F","G","H","I","J","K","L","M",
                "N","O","P","Q","R","S","T","U","V","W","X","Y","Z">>
LowerChars == <<"a","b","c","d","e","f","g","h","i","j","k","l","m",
                "n","o","p","q","r","s","t","u","v","w","x","y","z">>

Range(s) == {s[i] : i \in 1..Len(s)}

IsUpper(c) == c \in Range(UpperChars)
IsLower(c) == c \in Range(LowerChars)
\* the class [A-Za-z]
IsLetter(c) == IsUpper(c) \/ IsLower(c)
\* the class [ \t]
IsBlank(c) == c \in {" ", TAB}
\* the class \s, and the characters str.strip() removes
IsSpace(c) == c \in {" ", TAB, LF, CR}

\* str.lower() on one character
LowerChar(c) ==
    IF IsUpper(c)
    THEN LowerChars[CHOOSE i \in 1..Len(UpperChars) : UpperChars[i] = c]
    ELSE c

\* str.lower()
Lower(s) == [i \in 1..Len(s) |-> LowerChar(s[i])]

\* s[i:] of Python, for the 1-based position i
From(s, i) == SubSeq(s, i, Len(s))

\* lit occurs in s at position i
StartsAt(s, i, lit) ==
    /\ i >= 1
    /\ i + Len(lit) - 1 <= Len(s)
    /\ \A k \in 1..Len(lit) : s[i + k - 1] = lit[k]

\* str.find: the first position >= i where lit occurs in s, 0 when none
RECURSIVE Find(_, _, _)
Find(s, lit, i) ==
    IF i + Len(lit) - 1 > Len(s) THEN 0
    ELSE IF StartsAt(s, i, lit) THEN i
    ELSE Find(s, lit, i + 1)

\* number of non-overlapping occurrences of lit in s from position i on
RECURSIVE CountFrom(_, _, _)
CountFrom(s, lit, i) ==
    LET p == Find(s, lit, i)
    IN IF p = 0 THEN 0 ELSE 1 + CountFrom(s, lit, p + Len(lit))

Count(s, lit) == CountFrom(s, lit, 1)

\* the first position >= i of s that holds no character of the class, Len(s)+1
\* when none: where a greedy class* stops
RECURSIVE SkipBlank(_, _)
SkipBlank(s, i) ==
    IF i <= Len(s) /\ IsBlank(s[i]) THEN SkipBlank(s, i + 1) ELSE i

RECURSIVE SkipSpace(_, _)
SkipSpace(s, i) ==
    IF i <= Len(s) /\ IsSpace(s[i]) THEN SkipSpace(s, i + 1) ELSE i

RECURSIVE SkipLetters(_, _)
SkipLetters(s, i) ==
    IF i <= Len(s) /\ IsLetter(s[i]) THEN SkipLetters(s, i + 1) ELSE i

RECURSIVE SkipLower(_, _)
SkipLower(s, i) ==
    IF i <= Len(s) /\ IsLower(s[i]) THEN SkipLower(s, i + 1) ELSE i

\* str.replace(old, new): left to right, non-overlapping
RECURSIVE Replace(_, _, _)
Replace(s, old, new) ==
    LET p == Find(s, old, 1)
    IN IF p = 0 THEN s
       ELSE SubSeq(s, 1, p - 1) \o new \o Replace(From(s, p + Len(old)), old, new)

\* str.strip()
RECURSIVE RStrip(_)
RStrip(s) ==
    IF s # <<>> /\ IsSpace(s[Len(s)]) THEN RStrip(SubSeq(s, 1, Len(s) - 1)) ELSE s

Strip(s) == RStrip(From(s, SkipSpace(s, 1)))

\* sep.join(ss)
RECURSIVE Join(_, _)
Join(ss, sep) ==
    IF ss = <<>> THEN <<>>
    ELSE IF Len(ss) = 1 THEN ss[1]
    ELSE ss[1] \o sep \o Join(Tail(ss), sep)

IsPrefix(p, s) == Len(p) <= Len(s) /\ SubSeq(s, 1, Len(p)) = p

-----------------------------------------------------------------------------
(* Paths *)

\* None where the code holds an Optional[Path] (and the empty text of a path
\* field): a value no path equals, as no part of a path is empty
NoPath == << <<>> >>
\* a ValueError that leaves the function in place of a path
ValueError == << <<"ValueError">> >>

ROOT == <<"/">>
DOT == <<".">>
PDF_EXT == <<".", "p", "d", "f">>
MD_EXT == <<".", "m", "d">>

\* Path.name, Path.parent
Name(p) == p[Len(p)]
Parent(p) == IF Len(p) <= 1 THEN p ELSE SubSeq(p, 1, Len(p) - 1)

\* str.rfind(".") on a file name, 0 when none (1-based)
RECURSIVE RFindDot(_, _)
RFindDot(name, i) ==
    IF i = 0 THEN 0
    ELSE IF name[i] = "." THEN i
    ELSE RFindDot(name, i - 1)

\* Path.suffix: name[i:] when 0 < i < len(name) - 1 (0-based i), else ""
Suffix(name) ==
    LET i == RFindDot(name, Len(name))
    IN IF 1 < i /\ i < Len(name) THEN From(name, i) ELSE <<>>

\* Path.stem: name[:i] under the same condition, else the whole name
Stem(name) ==
    LET i == RFindDot(name, Len(name))
    IN IF 1 < i /\ i < Len(name) THEN SubSeq(name, 1, i - 1) ELSE name

\* str(path): "." for the empty path, else the parts joined by "/"
Str(p) ==
    IF p = <<>> THEN DOT
    ELSE IF p[1] = ROOT THEN ROOT \o Join(Tail(p), <<"/">>)
    ELSE Join(p, <<"/">>)

\* Path.relative_to(base) raises ValueError unless base's parts are a prefix
RelativeToRaises(p, base) == ~IsPrefix(base, p)
RelativeTo(p, base) == SubSeq(p, Len(base) + 1, Len(p))

\* _compute_out_path with the try/except around relative_to left out: the
\* ValueError escapes to the caller
ComputeOutPathNoFallback(md_path, out_dir, preserve_structure, base_root) ==
    LET safe_name == Stem(Name(md_path)) \o PDF_EXT
    IN IF preserve_structure /\ base_root # NoPath
       THEN IF RelativeToRaises(Parent(md_path), base_root)
            THEN ValueError
            ELSE out_dir \o RelativeTo(Parent(md_path), base_root) \o <<safe_name>>
       ELSE out_dir \o <<safe_name>>

\* ConvertTask._compute_out_path
ComputeOutPath(md_path, out_dir, preserve_structure, base_root) ==
    LET safe_name == Stem(Name(md_path)) \o PDF_EXT
    IN IF preserve_structure /\ base_root # NoPath
       THEN LET rel_parent ==
                    IF RelativeToRaises(Parent(md_path), base_root)
                    THEN <<>>
                    ELSE RelativeTo(Parent(md_path), base_root)
            IN out_dir \o rel_parent \o <<safe_name>>
       ELSE out_dir \o <<safe_name>>

\* the longest common prefix of two sequences
RECURSIVE CommonPrefix(_, _)
CommonPrefix(a, b) ==
    IF a = <<>> \/ b = <<>> \/ a[1] # b[1] THEN <<>>
    ELSE <<a[1]>> \o CommonPrefix(Tail(a), Tail(b))

\* os.path.commonpath of a non-empty list of resolved absolute paths: the
\* longest common prefix of their parts
RECURSIVE CommonPath(_)
CommonPath(paths) ==
    IF Len(paths) = 1 THEN paths[1]
    ELSE CommonPrefix(paths[1], CommonPath(Tail(paths)))

\* MainWindow._common_base: commonpath raises ValueError on an empty list
CommonBase(paths) == IF paths = <<>> THEN NoPath ELSE CommonPath(paths)

-----------------------------------------------------------------------------
(* preprocess_obsidian *)

MARK_OPEN == <<"<", "!", "-", "-">>
MARK_CLOSE == <<"-", "-", ">">>
CALLOUT == <<"c", "a", "l", "l", "o", "u", "t", ":">>
TITLE_ATTR == <<"t", "i", "t", "l", "e", "=", QUOTE>>

\* the text split at every "\n" (the lines re.MULTILINE's ^ and $ delimit)
RECURSIVE SplitLines(_)
SplitLines(text) ==
    LET p == Find(text, <<LF>>, 1)
    IN IF p = 0 THEN <<text>>
       ELSE <<SubSeq(text, 1, p - 1)>> \o SplitLines(From(text, p + 1))

\* the pattern ^[ \t]*>[ \t]*\[\!(?P<type>[A-Za-z]+)\][ \t]*(?P<title>.*)?$ on
\* one line: whether it matches, and its groups. Every class is disjoint from
\* the literal that follows it, so the greedy match is the only one.
MatchCallout(line) ==
    LET a == SkipBlank(line, 1)
        b == SkipBlank(line, a + 1)
        c == SkipLetters(line, b + 2)
        d == SkipBlank(line, c + 1)
        ok == /\ StartsAt(line, a, <<">">>)
              /\ StartsAt(line, b, <<"[", "!">>)
              /\ c > b + 2
              /\ StartsAt(line, c, <<"]">>)
    IN IF ok
       THEN [matched |-> TRUE, type |-> SubSeq(line, b + 2, c - 1),
             title |-> From(line, d)]
       ELSE [matched |-> FALSE, type |-> <<>>, title |-> <<>>]

\* repl_callout leaving the bracket tag in place before the marker comment
ReplCalloutKeepsTag(type, rawtitle) ==
    LET t == Lower(type)
        title == Strip(rawtitle)
        tag == <<">", " ", "[", "!">> \o t \o <<"]", " ">>
    IN IF title # <<>>
       THEN tag \o MARK_OPEN \o CALLOUT \o t \o <<" ">> \o TITLE_ATTR
                \o title \o <<QUOTE>> \o MARK_CLOSE
       ELSE tag \o MARK_OPEN \o CALLOUT \o t \o MARK_CLOSE

\* repl_callout
ReplCallout(type, rawtitle) ==
    LET t == Lower(type)
        title == Strip(rawtitle)
    IN IF title # <<>>
       THEN <<">", " ">> \o MARK_OPEN \o CALLOUT \o t \o <<" ">> \o TITLE_ATTR
                \o title \o <<QUOTE>> \o MARK_CLOSE
       ELSE <<">", " ">> \o MARK_OPEN \o CALLOUT \o t \o MARK_CLOSE

\* text.replace("\r\n", "\n").replace("\r", "\n")
NormalizeNewlines(text) == Replace(Replace(text, <<CR, LF>>, <<LF>>), <<CR>>, <<LF>>)

\* re.sub(pattern, repl_callout, text, flags=re.MULTILINE) on one line
RewriteLine(line) ==
    LET m == MatchCallout(line)
    IN IF m.matched THEN ReplCallout(m.type, m.title) ELSE line

PreprocessObsidian(text) ==
    LET lines == SplitLines(NormalizeNewlines(text))
    IN Join([i \in 1..Len(lines) |-> RewriteLine(lines[i])], <<LF>>)

-----------------------------------------------------------------------------
(* build_markdown_html: the external converter, on documents made of quote  *)
(* lines and plain lines. A run of quote lines becomes a blockquote whose   *)
(* content is the run with one quote prefix stripped, converted in turn; a  *)
(* run of plain lines becomes a paragraph. An HTML comment inside a line is *)
(* kept as it is. sep is what the converter puts between block tags: "\n"   *)
(* (python-markdown's serializer) or nothing.                               *)

BQ_OPEN == <<"<", "b", "l", "o", "c", "k", "q", "u", "o", "t", "e", ">">>
BQ_CLOSE == <<"<", "/", "b", "l", "o", "c", "k", "q", "u", "o", "t", "e", ">">>
P_OPEN == <<"<", "p", ">">>
P_CLOSE == <<"<", "/", "p", ">">>

IsBlankLine(line) == Strip(line) = <<>>
\* position of the ">" of a quote prefix [ ]{0,3}>, 0 when the line has none
QuoteMark(line) ==
    LET a == SkipBlank(line, 1)
    IN IF a <= 4 /\ StartsAt(line, a, <<">">>) THEN a ELSE 0
IsQuoteLine(line) == QuoteMark(line) # 0
\* the line without its quote prefix [ ]{0,3}>[ ]?
StripQuote(line) ==
    LET a == QuoteMark(line)
    IN IF StartsAt(line, a + 1, <<" ">>) THEN From(line, a + 2) ELSE From(line, a + 1)

\* length of the longest prefix of lines that are all quote lines (q = TRUE)
\* or all plain non-blank lines (q = FALSE)
RECURSIVE RunLen(_, _)
RunLen(lines, q) ==
    IF lines = <<>> \/ IsBlankLine(lines[1]) \/ IsQuoteLine(lines[1]) # q THEN 0
    ELSE 1 + RunLen(Tail(lines), q)

RECURSIVE ConvertBlocks(_, _)
ConvertBlocks(lines, sep) ==
    IF lines = <<>> THEN <<>>
    ELSE IF IsBlankLine(lines[1]) /\ ~IsQuoteLine(lines[1])
    THEN ConvertBlocks(Tail(lines), sep)
    ELSE LET q == IsQuoteLine(lines[1])
             n == RunLen(lines, q)
             run == SubSeq(lines, 1, n)
             block ==
                 IF q
                 THEN BQ_OPEN \o sep
                        \o ConvertBlocks([i \in 1..n |-> StripQuote(run[i])], sep)
                        \o sep \o BQ_CLOSE
                 ELSE P_OPEN \o Join(run, <<LF>>) \o P_CLOSE
             rest == ConvertBlocks(SubSeq(lines, n + 1, Len(lines)), sep)
         IN IF rest = <<>> THEN block ELSE block \o sep \o rest

BuildMarkdownHtml(md_text, sep) == ConvertBlocks(SplitLines(md_text), sep)

-----------------------------------------------------------------------------
(* wrap_html_document.transform_callouts *)

SPAN_OPEN == <<"<", "s", "p", "a", "n", " ", "d", "a", "t", "a", "-",
               "c", "a", "l", "l", "o", "u", "t", "=", QUOTE>>
SPAN_CLOSE == <<"<", "/", "s", "p", "a", "n", ">">>

NoMatch == [matched |-> FALSE, start |-> 0, stop |-> 0, type |-> <<>>, title |-> <<>>]

\* <!--\s*callout:([a-z]+)(?:\s+title="([^"]*)")?\s*--> tried at position i;
\* stop is the position after the match. The optional group is tried first
\* (it is greedy); when the rest fails with it, the match is tried without.
MatchMarkerAt(s, i) ==
    LET a == SkipSpace(s, i + Len(MARK_OPEN))
        b == a + Len(CALLOUT)
        c == SkipLower(s, b)
        d == SkipSpace(s, c)
        e == d + Len(TITLE_ATTR)
        q == Find(s, <<QUOTE>>, e)
        f == SkipSpace(s, q + 1)
        head == /\ StartsAt(s, i, MARK_OPEN)
                /\ StartsAt(s, a, CALLOUT)
                /\ c > b
        withTitle == /\ d > c
                     /\ StartsAt(s, d, TITLE_ATTR)
                     /\ q # 0
                     /\ StartsAt(s, f, MARK_CLOSE)
    IN IF head /\ withTitle
       THEN [matched |-> TRUE, start |-> i, stop |-> f + Len(MARK_CLOSE),
             type |-> SubSeq(s, b, c - 1), title |-> SubSeq(s, e, q - 1)]
       ELSE IF head /\ StartsAt(s, d, MARK_CLOSE)
       THEN [matched |-> TRUE, start |-> i, stop |-> d + Len(MARK_CLOSE),
             type |-> SubSeq(s, b, c - 1), title |-> <<>>]
       ELSE NoMatch

\* re.search of the marker pattern: the leftmost match from position i on
RECURSIVE SearchMarker(_, _)
SearchMarker(s, i) ==
    LET p == Find(s, MARK_OPEN, i)
    IN IF p = 0 THEN NoMatch
       ELSE IF MatchMarkerAt(s, p).matched THEN MatchMarkerAt(s, p)
       ELSE SearchMarker(s, p + 1)

\* <!--\s*callout:[^>]*-->\s* tried at position i: [^>]* cannot cross a ">",
\* so the closing --> must end at the first ">" after "callout:"
MatchLooseAt(s, i) ==
    LET a == SkipSpace(s, i + Len(MARK_OPEN))
        b == a + Len(CALLOUT)
        g == Find(s, <<">">>, b)
    IN IF /\ StartsAt(s, i, MARK_OPEN)
          /\ StartsAt(s, a, CALLOUT)
          /\ g >= b + 2
          /\ StartsAt(s, g - 2, MARK_CLOSE)
       THEN [matched |-> TRUE, start |-> i, stop |-> SkipSpace(s, g + 1),
             type |-> <<>>, title |-> <<>>]
       ELSE NoMatch

RECURSIVE SearchLoose(_, _)
SearchLoose(s, i) ==
    LET p == Find(s, MARK_OPEN, i)
    IN IF p = 0 THEN NoMatch
       ELSE IF MatchLooseAt(s, p).matched THEN MatchLooseAt(s, p)
       ELSE SearchLoose(s, p + 1)

\* re.sub(r"<!--\s*callout:[^>]*-->\s*", "", inner, count=1)
RemoveMarker(inner) ==
    LET m == SearchLoose(inner, 1)
    IN IF m.matched THEN SubSeq(inner, 1, m.start - 1) \o From(inner, m.stop)
       ELSE inner

\* expansion of a replacement template of re.sub: \1 is the first group and
\* \\ a backslash (the escapes the documents of this model can hold)
RECURSIVE Expand(_, _)
Expand(template, group1) ==
    IF template = <<>> THEN <<>>
    ELSE IF StartsAt(template, 1, <<BACKSLASH, "1">>)
    THEN group1 \o Expand(From(template, 3), group1)
    ELSE IF StartsAt(template, 1, <<BACKSLASH, BACKSLASH>>)
    THEN <<BACKSLASH>> \o Expand(From(template, 3), group1)
    ELSE <<template[1]>> \o Expand(Tail(template), group1)

\* re.sub(r"^(<p[^>]*>)", r"\1" + badge + " ", inner2, count=1): without
\* re.MULTILINE, ^ is the start of inner2 only
InsertInParagraph(inner2, badge) ==
    LET g == Find(inner2, <<">">>, 3)
    IN IF StartsAt(inner2, 1, <<"<", "p">>) /\ g # 0
       THEN Expand(<<BACKSLASH, "1">> \o badge \o <<" ">>, SubSeq(inner2, 1, g))
                \o From(inner2, g + 1)
       ELSE inner2

Badge(ctype, ctitle) ==
    IF ctitle # <<>>
    THEN SPAN_OPEN \o ctype \o <<QUOTE, ">">> \o ctitle \o SPAN_CLOSE
    ELSE SPAN_OPEN \o ctype \o <<QUOTE, ">">> \o SPAN_CLOSE

\* repl, on the group (.*?) of one match
Repl(inner) ==
    LET cm == SearchMarker(inner, 1)
        badge == Badge(cm.type, cm.title)
        inner2 == RemoveMarker(inner)
        inner2_new == InsertInParagraph(inner2, badge)
    IN IF ~cm.matched THEN BQ_OPEN \o inner \o BQ_CLOSE
       ELSE IF inner2_new = inner2 THEN BQ_OPEN \o badge \o inner2 \o BQ_CLOSE
       ELSE BQ_OPEN \o inner2_new \o BQ_CLOSE

\* the matches of <blockquote>(.*?)</blockquote> (re.DOTALL) in html from
\* position i on, left to right and non-overlapping: [open, close] positions
RECURSIVE BlockMatches(_, _)
BlockMatches(html, i) ==
    LET o == Find(html, BQ_OPEN, i)
        c == Find(html, BQ_CLOSE, o + Len(BQ_OPEN))
    IN IF o = 0 \/ c = 0 THEN <<>>
       ELSE <<[open |-> o, close |-> c]>> \o BlockMatches(html, c + Len(BQ_CLOSE))

\* re.sub(r"<blockquote>(.*?)</blockquote>", repl, html, flags=re.DOTALL)
RECURSIVE TransformFrom(_, _, _)
TransformFrom(html, ms, i) ==
    IF ms = <<>> THEN From(html, i)
    ELSE SubSeq(html, i, ms[1].open - 1)
           \o Repl(SubSeq(html, ms[1].open + Len(BQ_OPEN), ms[1].close - 1))
           \o TransformFrom(html, Tail(ms), ms[1].close + Len(BQ_CLOSE))

TransformCallouts(html) == TransformFrom(html, BlockMatches(html, 1), 1)

-----------------------------------------------------------------------------
(* The file system and the requests the models are driven with *)

DIR_A == <<"a">>
DIR_B == <<"b">>
DIR_C == <<"c">>
DIR_OUT == <<"o", "u", "t">>
X_MD == <<"x", ".", "m", "d">>
Y_MD == <<"y", ".", "m", "d">>

\* Markdown files that exist: /a/b/x.md, /a/c/x.md, /a/c/y.md
ExistingMd == {<<ROOT, DIR_A, DIR_B, X_MD>>, <<ROOT, DIR_A, DIR_C, X_MD>>,
               <<ROOT, DIR_A, DIR_C, Y_MD>>}

\* further source paths a ConvertTask can be given: /a/b/a.b.md, /a/README,
\* /a/.md, /a/x., /x.md and the relative x.md
OtherSources == {<<ROOT, DIR_A, DIR_B, <<"a", ".", "b", ".", "m", "d">>>>,
                 <<ROOT, DIR_A, <<"R", "E", "A", "D", "M", "E">>>>,
                 <<ROOT, DIR_A, MD_EXT>>,
                 <<ROOT, DIR_A, <<"x", ".">>>>,
                 <<ROOT, X_MD>>,
                 <<X_MD>>}

\* output roots: /out and Path("") (an empty output field)
OutDirs == {<<ROOT, DIR_OUT>>, <<>>}

\* base roots: /, /a, /a/b, /a/c, the file /a/b/x.md and the relative a
BaseRoots == {<<ROOT>>, <<ROOT, DIR_A>>, <<ROOT, DIR_A, DIR_B>>,
              <<ROOT, DIR_A, DIR_C>>, <<ROOT, DIR_A, DIR_B, X_MD>>, <<DIR_A>>}

\* the sequences without repetition of at most n elements of S
RECURSIVE Lists(_, _)
Lists(S, n) ==
    IF n = 0 THEN {<<>>}
    ELSE LET shorter == Lists(S, n - 1)
         IN shorter \cup {Append(l, x) : l \in shorter, x \in S}

DistinctLists(S, n) ==
    {l \in Lists(S, n) : \A i, j \in 1..Len(l) : i # j => l[i] # l[j]}

-----------------------------------------------------------------------------
(* PathSpec: the output path resolver applied to one request *)

OutPathRequests ==
    [kind : {"out_path"}, stage : {"request"},
     md_path : ExistingMd \cup OtherSources, out_dir : OutDirs,
     preserve_structure : BOOLEAN, base_root : BaseRoots \cup {NoPath},
     paths : {<<>>}, answer : {NoPath}]

CommonBaseRequests ==
    [kind : {"common_base"}, stage : {"request"},
     md_path : {NoPath}, out_dir : {NoPath},
     preserve_structure : {FALSE}, base_root : {NoPath},
     paths : DistinctLists(ExistingMd \cup {<<ROOT, X_MD>>}, MaxFiles),
     answer : {NoPath}]

ResolverIdle == [kind |-> "none", stage |-> "idle"]

\* a call of ConvertTask._compute_out_path
ResolveOutPath ==
    /\ resolver.kind = "out_path"
    /\ resolver.stage = "request"
    /\ resolver' = [resolver EXCEPT
           !.stage = "answered",
           !.answer = ComputeOutPath(resolver.md_path, resolver.out_dir,
                                     resolver.preserve_structure,
                                     resolver.base_root)]
    /\ UNCHANGED <<uiVars, runVars, pipeline>>

\* a call of MainWindow._common_base
ResolveCommonBase ==
    /\ resolver.kind = "common_base"
    /\ resolver.stage = "request"
    /\ resolver' = [resolver EXCEPT
           !.stage = "answered",
           !.answer = CommonBase(resolver.paths)]
    /\ UNCHANGED <<uiVars, runVars, pipeline>>

-----------------------------------------------------------------------------
(* TextSpec: one document through preprocess_obsidian, the converter and    *)
(* transform_callouts                                                       *)

\* callout kinds as written in the source document
Kinds == {<<"t", "i", "p">>, <<"N", "o", "T", "e">>}

\* the text after the closing bracket of a header:
\* nothing, " ", " Hi", "  Hi \t", " a"b", " a>b", " a\1b"
TitleTexts == {<<>>, <<" ">>, <<" ", "H", "i">>, <<" ", " ", "H", "i", " ", TAB>>,
               <<" ", "a", QUOTE, "b">>, <<" ", "a", ">", "b">>,
               <<" ", "a", BACKSLASH, "1", "b">>}

\* the ways a header line starts: "> " and " >\t"
HeaderStarts == {<<">", " ">>, <<" ", ">", TAB>>}

HeaderLine(start, kind, title) == start \o <<"[", "!">> \o kind \o <<"]">> \o title

\* first lines that are no callout header: "> x", "x", "", "> [!]", "> [tip] x",
\* "x > [!tip]", and a line that is already a marker comment
PlainLines == {<<">", " ", "x">>, <<"x">>, <<>>, <<">", " ", "[", "!", "]">>,
               <<">", " ", "[", "t", "i", "p", "]", " ", "x">>,
               <<"x", " ", ">", " ", "[", "!", "t", "i", "p", "]">>,
               <<">", " ">> \o MARK_OPEN \o CALLOUT \o <<"t", "i", "p">> \o MARK_CLOSE}

BODY_LINE == <<">", " ", "b", "o", "d", "y">>
\* a second header line in the same quote: "> [!note] c"
DUP_LINE == <<">", " ", "[", "!", "n", "o", "t", "e", "]", " ", "c">>
NESTED_LINE == <<">", " ", ">", " ", "q">>
QUOTE_GAP == <<">">>

\* line terminators a source file can use
Eols == {<<LF>>, <<CR, LF>>, <<CR>>}

\* what the converter writes between block tags
Seps == {<<LF>>, <<>>}

\* the lines of a document: its first line, the second header line if it has
\* one, body quote lines, then nested quotes, each after the first separated by
\* an empty quote line
RECURSIVE NestedLines(_)
NestedLines(n) ==
    IF n = 0 THEN <<>>
    ELSE IF n = 1 THEN <<NESTED_LINE>>
    ELSE NestedLines(n - 1) \o <<QUOTE_GAP, NESTED_LINE>>

DocLines(first, dup, body, nested) ==
    <<first>> \o (IF dup THEN <<DUP_LINE>> ELSE <<>>)
        \o [i \in 1..body |-> BODY_LINE] \o NestedLines(nested)

Documents ==
    {[header |-> TRUE, first |-> HeaderLine(st, k, t), kind |-> k, title |-> t,
      dup |-> d, body |-> b, nested |-> n, eol |-> e, sep |-> sp] :
        st \in HeaderStarts, k \in Kinds, t \in TitleTexts, d \in BOOLEAN,
        b \in 0..MaxBody, n \in 0..MaxNested, e \in Eols, sp \in Seps}
    \cup
    {[header |-> FALSE, first |-> l, kind |-> <<>>, title |-> <<>>,
      dup |-> FALSE, body |-> b, nested |-> n, eol |-> e, sep |-> sp] :
        l \in PlainLines,
        b \in 0..MaxBody, n \in 0..MaxNested, e \in Eols, sp \in Seps}

PipelineIdle == [stage |-> "idle"]

PipelineStart(doc) ==
    [stage |-> "raw", doc |-> doc,
     text |-> Join(DocLines(doc.first, doc.dup, doc.body, doc.nested), doc.eol),
     pre |-> <<>>, again |-> <<>>, html |-> <<>>, out |-> <<>>]

\* convert_one: text = preprocess_obsidian(text)
Preprocess ==
    /\ pipeline.stage = "raw"
    /\ pipeline' = [pipeline EXCEPT !.stage = "pre",
                                    !.pre = PreprocessObsidian(pipeline.text)]
    /\ UNCHANGED <<uiVars, runVars, resolver>>

\* preprocess_obsidian applied to its own output
PreprocessAgain ==
    /\ pipeline.stage = "pre"
    /\ pipeline' = [pipeline EXCEPT !.stage = "again",
                                    !.again = PreprocessObsidian(pipeline.pre)]
    /\ UNCHANGED <<uiVars, runVars, resolver>>

\* convert_one: body_html = build_markdown_html(text)
Convert ==
    /\ pipeline.stage \in {"pre", "again"}
    /\ pipeline' = [pipeline EXCEPT
           !.stage = "html",
           !.html = BuildMarkdownHtml(pipeline.pre, pipeline.doc.sep)]
    /\ UNCHANGED <<uiVars, runVars, resolver>>

\* wrap_html_document: body_with_callouts = transform_callouts(body_html)
\* (the fixed page template around the body is left out)
Wrap ==
    /\ pipeline.stage = "html"
    /\ pipeline' = [pipeline EXCEPT !.stage = "out",
                                    !.out = TransformCallouts(pipeline.html)]
    /\ UNCHANGED <<uiVars, runVars, resolver>>

-----------------------------------------------------------------------------
(* The window: MainWindow's file list and options *)

DOTDOT == <<".", ".">>
N_TXT == <<"n", ".", "t", "x", "t">>
Z_MD == <<"z", ".", "m", "d">>

\* the output directory of the window (ed_out is left as it is)
OUT_DIR == <<ROOT, DIR_OUT>>

\* Path.resolve() on an absolute path: every "name/.." pair is dropped
RECURSIVE Resolve(_)
Resolve(p) ==
    IF \E i \in 2..Len(p) : p[i] = DOTDOT
    THEN LET i == CHOOSE i \in 2..Len(p) :
                      p[i] = DOTDOT /\ \A j \in 2..(i - 1) : p[j] # DOTDOT
         IN Resolve(SubSeq(p, 1, i - 2) \o SubSeq(p, i + 1, Len(p)))
    ELSE p

\* files on disk: the Markdown files and /a/b/n.txt
Exists(p) == p \in ExistingMd \cup {<<ROOT, DIR_A, DIR_B, N_TXT>>}

\* what a file dialog or a drop can hand over: the files on disk, /a/c/../b/x.md
\* (another spelling of /a/b/x.md) and /a/z.md, which does not exist
Pickable == ExistingMd \cup {<<ROOT, DIR_A, DIR_B, N_TXT>>,
                             <<ROOT, DIR_A, DIR_C, DOTDOT, DIR_B, X_MD>>,
                             <<ROOT, DIR_A, Z_MD>>}

\* folders a folder dialog can return: /a, /a/b, /a/c
Folders == {<<ROOT, DIR_A>>, <<ROOT, DIR_A, DIR_B>>, <<ROOT, DIR_A, DIR_C>>}

\* p.suffix.lower() != ".md"
NotMarkdown(p) == Lower(Suffix(Name(p))) # MD_EXT

\* the loop of _add_files without the test "p in self.files"
RECURSIVE AddedFilesNoDedup(_, _)
AddedFilesNoDedup(list, paths) ==
    IF paths = <<>> THEN list
    ELSE LET q == Resolve(paths[1])
         IN IF ~Exists(q) \/ NotMarkdown(q) THEN AddedFilesNoDedup(list, Tail(paths))
            ELSE AddedFilesNoDedup(Append(list, q), Tail(paths))

\* the loop of _add_files: the list after the paths are gone through
RECURSIVE AddedFiles(_, _)
AddedFiles(list, paths) ==
    IF paths = <<>> THEN list
    ELSE LET q == Resolve(paths[1])
         IN IF ~Exists(q) \/ NotMarkdown(q) THEN AddedFiles(list, Tail(paths))
            ELSE IF q \in Range(list) THEN AddedFiles(list, Tail(paths))
            ELSE AddedFiles(Append(list, q), Tail(paths))

\* _update_base_root_autodetect followed by _set_base_root: the text of ed_base
\* afterwards, given the list and the text before
Autodetected(list, base) ==
    IF list = <<>> THEN base
    ELSE IF CommonBase(list) # NoPath THEN Resolve(CommonBase(list))
    ELSE base

\* the guard "self.chk_preserve.isChecked() and not self.ed_base.text().strip()"
AutoBase(checked, base) == checked /\ base = NoPath

\* _add_files
AddFiles(paths) ==
    LET list == AddedFiles(files, paths)
    IN /\ Len(list) <= MaxFiles
       /\ files' = list
       /\ ed_base' = IF Len(list) > Len(files) /\ AutoBase(preserve, ed_base)
                     THEN Autodetected(list, ed_base)
                     ELSE ed_base

\* on_add_files, and a drop of files on the list
OnAddFiles ==
    /\ ~busy
    /\ \E paths \in Lists(Pickable, MaxPick) : AddFiles(paths)
    /\ UNCHANGED <<preserve, busy, progress_val, runVars, resolver, pipeline>>

\* collect_md_in_dir: the Markdown files under root with no part starting
\* with a dot, in the order rglob meets them (any order)
CollectMdInDir(root) ==
    LET found == {q \in ExistingMd :
                     /\ IsPrefix(root, q)
                     /\ \A i \in 1..Len(q) : q[i][1] # "."}
    IN {l \in DistinctLists(found, Cardinality(found)) : Len(l) = Cardinality(found)}

\* on_add_folder
OnAddFolder ==
    /\ ~busy
    /\ \E d \in Folders : \E paths \in CollectMdInDir(d) :
          LET list == AddedFiles(files, paths)
              base == IF Len(list) > Len(files) /\ AutoBase(preserve, ed_base)
                      THEN Autodetected(list, ed_base)
                      ELSE ed_base
          IN /\ Len(list) <= MaxFiles
             /\ files' = list
             /\ ed_base' = IF AutoBase(preserve, base) THEN Resolve(d) ELSE base
    /\ UNCHANGED <<preserve, busy, progress_val, runVars, resolver, pipeline>>

\* on_clear
OnClear ==
    /\ ~busy
    /\ files' = <<>>
    /\ UNCHANGED <<preserve, ed_base, busy, progress_val, runVars, resolver, pipeline>>

\* the list without the entries at the positions in sel
RECURSIVE Without(_, _, _)
Without(list, sel, i) ==
    IF i > Len(list) THEN <<>>
    ELSE IF i \in sel THEN Without(list, sel, i + 1)
    ELSE <<list[i]>> \o Without(list, sel, i + 1)

\* on_remove_selected, sel the selected rows of list_files
OnRemoveSelected ==
    /\ ~busy
    /\ \E sel \in SUBSET (1..Len(files)) :
          LET list == Without(files, sel, 1)
          IN /\ files' = list
             /\ ed_base' = IF AutoBase(preserve, ed_base)
                           THEN Autodetected(list, ed_base)
                           ELSE ed_base
    /\ UNCHANGED <<preserve, busy, progress_val, runVars, resolver, pipeline>>

\* on_toggle_preserve
OnTogglePreserve ==
    /\ ~busy
    /\ preserve' = ~preserve
    /\ ed_base' = IF AutoBase(preserve', ed_base)
                  THEN Autodetected(files, ed_base)
                  ELSE ed_base
    /\ UNCHANGED <<files, busy, progress_val, runVars, resolver, pipeline>>

\* on_pick_base_root
OnPickBaseRoot ==
    /\ ~busy
    /\ \E d \in Folders : ed_base' = Resolve(d)
    /\ UNCHANGED <<files, preserve, busy, progress_val, runVars, resolver, pipeline>>

NoTask == [files |-> <<>>, out_dir |-> NoPath, preserve_structure |-> FALSE,
           base_root |-> NoPath]

\* on_convert: the base root handed to the task
BaseRootForTask ==
    IF preserve
    THEN IF ed_base # NoPath THEN ed_base ELSE CommonBase(files)
    ELSE NoPath

\* on_convert
OnConvert ==
    /\ ~busy
    /\ IF files = <<>>
       THEN UNCHANGED <<busy, progress_val, runVars>>
       ELSE /\ busy' = TRUE
            /\ progress_val' = 0
            /\ task' = [files |-> files, out_dir |-> OUT_DIR,
                        preserve_structure |-> preserve,
                        base_root |-> BaseRootForTask]
            /\ pc' = "queued"
            /\ idx' = 0
            /\ results' = <<>>
            /\ output_pdf' = NoPath
            /\ emitted' = <<>>
            /\ calls' = <<>>
            /\ delivered' = 0
    /\ UNCHANGED <<files, preserve, ed_base, resolver, pipeline>>

-----------------------------------------------------------------------------
(* The worker: ConvertTask.run on a pool thread *)

\* the exceptions the steps of one document raise: load_text a
\* FileNotFoundError("m"), the conversion a ValueError(), mkdir a
\* PermissionError(" "), write_pdf an OSError("m")
Raised(step) ==
    CASE step = "load_text" -> [type |-> "FileNotFoundError", msg |-> <<"m">>]
      [] step = "convert" -> [type |-> "ValueError", msg |-> <<>>]
      [] step = "mkdir" -> [type |-> "PermissionError", msg |-> <<" ">>]
      [] step = "write_pdf" -> [type |-> "OSError", msg |-> <<"m">>]

\* traceback.format_exception_only(type(e), e), joined: "Type: message\n", or
\* "Type\n" when str(e) is empty
FormatExceptionOnly(e) ==
    IF e.msg = <<>> THEN <<e.type, LF>>
    ELSE <<e.type, ":", " ">> \o e.msg \o <<LF>>

\* the summary taken from str(e) alone
ErrorSummaryMessageOnly(e) == Strip(e.msg)

\* err = "".join(traceback.format_exception_only(type(e), e)).strip()
ErrorSummary(e) == Strip(FormatExceptionOnly(e))

Total == Len(task.files)
MdPath == task.files[idx]

\* the signals of WorkerSignals
Progress(cur, total) == [sig |-> "progress", cur |-> cur, total |-> total,
                         text |-> <<>>, results |-> <<>>]
Message(kind, text) == [sig |-> "message", cur |-> 0, total |-> 0,
                        text |-> <<kind>> \o text, results |-> <<>>]
Done(list) == [sig |-> "done", cur |-> 0, total |-> 0, text |-> <<>>,
               results |-> list]

\* the outcome put in front of the list
RecordOutcomeFirst(list, outcome) == <<outcome>> \o list

\* results.append(outcome)
RecordOutcome(list, outcome) == Append(list, outcome)

\* where run goes after the body of the loop for document idx
AfterDocument == IF idx < Total THEN "progress" ELSE "done"

\* the thread pool starts run: results = [], total = len(self.files), and the
\* loop is entered
RunStart ==
    /\ pc = "queued"
    /\ results' = <<>>
    /\ idx' = IF Total = 0 THEN 0 ELSE 1
    /\ pc' = IF Total = 0 THEN "done" ELSE "progress"
    /\ UNCHANGED <<task, output_pdf, emitted, calls, delivered, uiVars,
                   resolver, pipeline>>

\* the progress signal counting from 0 (enumerate without start=1)
EmitProgressFromZero ==
    /\ pc = "progress"
    /\ emitted' = Append(emitted, Progress(idx - 1, Total))
    /\ pc' = "message"
    /\ UNCHANGED <<task, idx, results, output_pdf, calls, delivered, uiVars,
                   resolver, pipeline>>

\* self.signals.progress.emit(i, total)
EmitProgress ==
    /\ pc = "progress"
    /\ emitted' = Append(emitted, Progress(idx, Total))
    /\ pc' = "message"
    /\ UNCHANGED <<task, idx, results, output_pdf, calls, delivered, uiVars,
                   resolver, pipeline>>

\* self.signals.message.emit(f"Конвертация: {md_path}")
EmitMessage ==
    /\ pc = "message"
    /\ emitted' = Append(emitted, Message("start", Str(MdPath)))
    /\ pc' = "convert_one"
    /\ UNCHANGED <<task, idx, results, output_pdf, calls, delivered, uiVars,
                   resolver, pipeline>>

\* the except clause that records nothing and goes on
FailSilently(e, started) ==
    /\ emitted' = Append(emitted, Message("error", Str(MdPath) \o ErrorSummary(e)))
    /\ calls' = calls \o started
    /\ output_pdf' = NoPath
    /\ idx' = IF idx < Total THEN idx + 1 ELSE idx
    /\ pc' = AfterDocument
    /\ UNCHANGED <<results>>

\* the except clause of run: the failure is recorded and reported, and the
\* loop goes on. started are the operations begun before the exception.
Fail(e, started) ==
    /\ results' = RecordOutcome(results, <<Str(MdPath), <<>>, FALSE, ErrorSummary(e)>>)
    /\ emitted' = Append(emitted, Message("error", Str(MdPath) \o ErrorSummary(e)))
    /\ calls' = calls \o started
    /\ output_pdf' = NoPath
    /\ idx' = IF idx < Total THEN idx + 1 ELSE idx
    /\ pc' = AfterDocument

\* html, output_pdf = self.convert_one(md_path): load_text, then
\* preprocess_obsidian, build_markdown_html and wrap_html_document, then
\* _compute_out_path; load_text and the conversion can raise
ConvertOne ==
    /\ pc = "convert_one"
    /\ \/ Fail(Raised("load_text"), <<<<"load_text", idx>>>>)
       \/ Fail(Raised("convert"), <<<<"load_text", idx>>, <<"convert", idx>>>>)
       \/ /\ output_pdf' = ComputeOutPath(MdPath, task.out_dir,
                                          task.preserve_structure, task.base_root)
          /\ calls' = calls \o <<<<"load_text", idx>>, <<"convert", idx>>>>
          /\ pc' = "render_pdf"
          /\ UNCHANGED <<idx, results, emitted>>
    /\ UNCHANGED <<task, delivered, uiVars, resolver, pipeline>>

\* self.render_pdf(html, md_path.parent, output_pdf): mkdir, then write_pdf;
\* either can raise. Then the outcome is appended and reported.
RenderPdf ==
    /\ pc = "render_pdf"
    /\ \/ Fail(Raised("mkdir"), <<<<"mkdir", idx>>>>)
       \/ Fail(Raised("write_pdf"), <<<<"mkdir", idx>>, <<"write_pdf", idx>>>>)
       \/ /\ results' = RecordOutcome(results,
                                       <<Str(MdPath), Str(output_pdf), TRUE, <<>>>>)
          /\ emitted' = Append(emitted, Message("ok", Str(output_pdf)))
          /\ calls' = calls \o <<<<"mkdir", idx>>, <<"write_pdf", idx>>>>
          /\ output_pdf' = NoPath
          /\ idx' = IF idx < Total THEN idx + 1 ELSE idx
          /\ pc' = AfterDocument
    /\ UNCHANGED <<task, delivered, uiVars, resolver, pipeline>>

\* run ending without the done signal
ReturnWithoutDone ==
    /\ pc = "done"
    /\ pc' = "finished"
    /\ UNCHANGED <<task, idx, results, output_pdf, emitted, calls, delivered,
                   uiVars, resolver, pipeline>>

\* self.signals.done.emit(results), and run returns
EmitDone ==
    /\ pc = "done"
    /\ emitted' = Append(emitted, Done(results))
    /\ pc' = "finished"
    /\ UNCHANGED <<task, idx, results, output_pdf, calls, delivered, uiVars,
                   resolver, pipeline>>

-----------------------------------------------------------------------------
(* The slots of the window, run on the GUI thread for each queued signal, in *)
(* emission order                                                            *)

NextSignal == emitted[delivered + 1]

\* _on_progress
OnProgress ==
    /\ delivered < Len(emitted)
    /\ NextSignal.sig = "progress"
    /\ progress_val' = (NextSignal.cur * 100) \div
                           (IF NextSignal.total > 1 THEN NextSignal.total ELSE 1)
    /\ delivered' = delivered + 1
    /\ UNCHANGED <<files, preserve, ed_base, busy, task, pc, idx, results,
                   output_pdf, emitted, calls, resolver, pipeline>>

\* _log, connected to the message signal: the line is appended to the log
OnMessage ==
    /\ delivered < Len(emitted)
    /\ NextSignal.sig = "message"
    /\ delivered' = delivered + 1
    /\ UNCHANGED <<uiVars, task, pc, idx, results, output_pdf, emitted, calls,
                   resolver, pipeline>>

\* _on_done: the counts are logged and the controls enabled again. done is
\* the last signal of the task, which the pool has dropped by then.
OnDone ==
    /\ delivered < Len(emitted)
    /\ NextSignal.sig = "done"
    /\ pc = "finished"
    /\ busy' = FALSE
    /\ task' = NoTask
    /\ pc' = "idle"
    /\ idx' = 0
    /\ results' = <<>>
    /\ output_pdf' = NoPath
    /\ emitted' = <<>>
    /\ calls' = <<>>
    /\ delivered' = 0
    /\ UNCHANGED <<files, preserve, ed_base, progress_val, resolver, pipeline>>

-----------------------------------------------------------------------------
(* Specifications *)

WindowIdle ==
    /\ files = <<>>
    /\ preserve = TRUE
    /\ ed_base = NoPath
    /\ busy = FALSE
    /\ progress_val = -1
    /\ task = NoTask
    /\ pc = "idle"
    /\ idx = 0
    /\ results = <<>>
    /\ output_pdf = NoPath
    /\ emitted = <<>>
    /\ calls = <<>>
    /\ delivered = 0

PathInit ==
    /\ WindowIdle
    /\ resolver \in OutPathRequests \cup CommonBaseRequests
    /\ pipeline = PipelineIdle

PathNext == ResolveOutPath \/ ResolveCommonBase

PathSpec == PathInit /\ [][PathNext]_vars

TextInit ==
    /\ WindowIdle
    /\ resolver = ResolverIdle
    /\ pipeline \in {PipelineStart(d) : d \in Documents}

TextNext == Preprocess \/ PreprocessAgain \/ Convert \/ Wrap

TextSpec == TextInit /\ [][TextNext]_vars


Init ==
    /\ WindowIdle
    /\ resolver = ResolverIdle
    /\ pipeline = PipelineIdle

Run == RunStart \/ EmitProgress \/ EmitMessage \/ ConvertOne \/ RenderPdf \/ EmitDone

Next ==
    \/ OnAddFiles
    \/ OnAddFolder
    \/ OnClear
    \/ OnRemoveSelected
    \/ OnTogglePreserve
    \/ OnPickBaseRoot
    \/ OnConvert
    \/ Run
    \/ OnProgress
    \/ OnMessage
    \/ OnDone

Spec == Init /\ [][Next]_vars

\* the pool runs a started task to its end (no step of it waits on the
\* window), and the GUI thread's event loop handles every queued signal
FairSpec ==
    /\ Spec
    /\ WF_vars(Run)
    /\ WF_vars(OnProgress \/ OnMessage \/ OnDone)

\* the window used without the base folder ever being picked (on_pick_base_root
\* is never run): ed_base holds only what the window itself has put there
AutoNext ==
    \/ OnAddFiles
    \/ OnAddFolder
    \/ OnClear
    \/ OnRemoveSelected
    \/ OnTogglePreserve
    \/ OnConvert
    \/ Run
    \/ OnProgress
    \/ OnMessage
    \/ OnDone

AutoSpec == Init /\ [][AutoNext]_vars

-----------------------------------------------------------------------------
(* Properties of the worker (Spec, FairSpec) *)

IsProgress(e) == e.sig = "progress"
IsDone(e) == e.sig = "done"
ProgressEvents == SelectSeq(emitted, IsProgress)
DoneEvents == SelectSeq(emitted, IsDone)
DoneEmitted == DoneEvents # <<>>
LoopOver == pc \in {"done", "finished"}
Started(step, k) == <<step, k>> \in Range(calls)
Failed(k) == results[k][3] = FALSE
SomeFailed == \E k \in 1..Len(results) : Failed(k)
SomeSucceeded == \E k \in 1..Len(results) : ~Failed(k)

\* C1: a failure at any step of a document is caught and recorded as a Failed
\* outcome with a non-empty summary, and the loop goes on: every document with
\* an outcome was attempted, a document that did not get through write_pdf is
\* recorded as failed, and when the loop is over every document of the batch
\* has been attempted and has its outcome, whichever of them failed.
C1_FailureIsolated ==
    /\ \A k \in 1..Len(results) :
          /\ Started("load_text", k)
          /\ Failed(k) => results[k][4] # <<>> /\ results[k][1] = Str(task.files[k])
          /\ ~Started("write_pdf", k) => Failed(k)
    /\ LoopOver =>
          /\ Len(results) = Total
          /\ \A k \in 1..Total : Started("load_text", k)

\* a finished batch whose first document failed and whose second succeeded
C1_Witness ==
    /\ pc = "finished"
    /\ Total = 2
    /\ Len(results) = 2
    /\ Failed(1)
    /\ ~Failed(2)
    /\ Started("write_pdf", 2)

C2_InOrder ==
    /\ Len(results) <= Total
    /\ \A k \in 1..Len(results) : results[k][1] = Str(task.files[k])
    /\ \A j \in 1..Len(DoneEvents) :
          /\ Len(DoneEvents[j].results) = Total
          /\ \A k \in 1..Total : DoneEvents[j].results[k][1] = Str(task.files[k])

C2_Grows ==
    \/ results' = results
    \/ /\ Len(results') = Len(results) + 1
       /\ SubSeq(results', 1, Len(results)) = results
    \/ pc' \in {"idle", "queued"}

\* C2: the list carried by done holds exactly one outcome per requested
\* document, in request order, and until then the list only grows at its end,
\* so that it is always a prefix of the final list.
C2_OneOutcomePerDocument == [](C2_InOrder) /\ [][C2_Grows]_vars

\* done carries two outcomes, a failure before a success
C2_Witness ==
    /\ DoneEmitted
    /\ Len(DoneEvents[1].results) = 2
    /\ DoneEvents[1].results[1][3] = FALSE
    /\ DoneEvents[1].results[2][3] = TRUE
    /\ task.files[1] # task.files[2]

\* C3: the k-th progress event is (k, N); there are N of them when the loop is
\* over; no step of document k has started before progress k was emitted; and
\* progress k is emitted only once the outcome of document k-1 is recorded.
C3_ProgressOrdered ==
    /\ \A j \in 1..Len(ProgressEvents) :
          /\ ProgressEvents[j].cur = j
          /\ ProgressEvents[j].total = Total
    /\ LoopOver => Len(ProgressEvents) = Total
    /\ \A c \in 1..Len(calls) : calls[c][2] <= Len(ProgressEvents)
    /\ Len(ProgressEvents) <= Len(results) + 1
    /\ Len(results) <= Len(ProgressEvents)

\* the second progress event of a batch of two is out and its document is
\* being rendered, after the first document failed
C3_Witness ==
    /\ pc = "render_pdf"
    /\ idx = 2
    /\ Len(ProgressEvents) = 2
    /\ ProgressEvents[2] = Progress(2, 2)
    /\ Len(results) = 1
    /\ Failed(1)

C4_DoneLast ==
    /\ Len(DoneEvents) <= 1
    /\ pc = "finished" <=> DoneEmitted
    /\ DoneEmitted =>
          /\ emitted[Len(emitted)] = Done(results)
          /\ Len(results) = Total
          /\ \A k \in 1..Total : Started("load_text", k)

C4_NothingAfterDone ==
    DoneEmitted => \/ emitted' = emitted /\ results' = results /\ calls' = calls
                   \/ pc' = "idle"

C5_OutcomeShape ==
    \A k \in 1..Len(results) :
        /\ results[k][3] = TRUE <=> results[k][4] = <<>>
        /\ results[k][3] = FALSE <=> results[k][2] = <<>>
        /\ results[k][3] = TRUE =>
              results[k][2] = Str(ComputeOutPath(task.files[k], task.out_dir,
                                                 task.preserve_structure,
                                                 task.base_root))

\* outcomes of a conversion that failed without a message and of one whose
\* destination mirrors the source's folder
C5_Witness ==
    /\ Len(results) = 2
    /\ results[1][4] = <<"ValueError">>
    /\ results[2][3] = TRUE
    /\ results[2][2] = Str(<<ROOT, DIR_OUT, DIR_C, <<"y", ".", "p", "d", "f">>>>)


-----------------------------------------------------------------------------
(* Properties of the output path resolver (PathSpec) *)

OutPathAnswered == resolver.kind = "out_path" /\ resolver.stage = "answered"
CommonBaseAnswered == resolver.kind = "common_base" /\ resolver.stage = "answered"

\* the source's file name with its extension replaced by .pdf
PdfName(md_path) ==
    LET name == Name(md_path)
    IN SubSeq(name, 1, Len(name) - Len(Suffix(name))) \o PDF_EXT

\* the source's parent directory lies under the base root
UnderBase(md_path, base_root) ==
    /\ Len(base_root) <= Len(Parent(md_path))
    /\ \A i \in 1..Len(base_root) : Parent(md_path)[i] = base_root[i]

\* C6: _compute_out_path never fails; the destination is
\* outputRoot / fileName when preserveStructure is off, the base root is
\* absent or the source's parent is not under the base root, and
\* outputRoot / relative(source.parent, baseRoot) / fileName otherwise.
C6_ResolverContract ==
    OutPathAnswered =>
        LET r == resolver
            flat == \/ ~r.preserve_structure
                    \/ r.base_root = NoPath
                    \/ ~UnderBase(r.md_path, r.base_root)
            rel == [i \in 1..(Len(Parent(r.md_path)) - Len(r.base_root)) |->
                        Parent(r.md_path)[Len(r.base_root) + i]]
        IN /\ r.answer # ValueError
           /\ flat => r.answer = r.out_dir \o <<PdfName(r.md_path)>>
           /\ ~flat => r.answer = r.out_dir \o rel \o <<PdfName(r.md_path)>>

\* /a/b/x.md under base /a goes to /out/b/x.pdf
C6_Witness ==
    /\ OutPathAnswered
    /\ resolver.md_path = <<ROOT, DIR_A, DIR_B, X_MD>>
    /\ resolver.base_root = <<ROOT, DIR_A>>
    /\ resolver.preserve_structure
    /\ resolver.answer = <<ROOT, DIR_OUT, DIR_B, <<"x", ".", "p", "d", "f">>>>

\* the deepest directory that is an ancestor of every path's parent directory
RECURSIVE DeepestCommonParent(_)
DeepestCommonParent(paths) ==
    IF Len(paths) = 1 THEN Parent(paths[1])
    ELSE CommonPrefix(Parent(paths[1]), DeepestCommonParent(Tail(paths)))

\* C7: _common_base returns none for an empty list and, for a non-empty one
\* (a single path included), the deepest directory that is an ancestor of
\* every path's parent directory, so that every parent is relative to it.
C7_CommonBaseIsDeepestAncestor ==
    CommonBaseAnswered =>
        IF resolver.paths = <<>> THEN resolver.answer = NoPath
        ELSE /\ resolver.answer = DeepestCommonParent(resolver.paths)
             /\ \A i \in 1..Len(resolver.paths) :
                   ~RelativeToRaises(Parent(resolver.paths[i]), resolver.answer)

-----------------------------------------------------------------------------
(* Properties of the text pipeline (TextSpec) *)

MARKER_START == MARK_OPEN \o CALLOUT

\* the badge a header line asks for: its kind in lower case, its title trimmed
ExpectedBadge(doc) ==
    SPAN_OPEN \o Lower(doc.kind) \o <<QUOTE, ">">> \o Strip(doc.title) \o SPAN_CLOSE

\* a document with one header line is through the pipeline
CalloutDone == pipeline.stage = "out" /\ pipeline.doc.header /\ ~pipeline.doc.dup

\* C8: a header line "> [!K] T" ends as a blockquote with exactly one badge,
\* of kind lowercase(K) and label trimmed T, and without the marker comment.
C8_HeaderBecomesBadge ==
    CalloutDone =>
        /\ Count(pipeline.out, SPAN_OPEN) = 1
        /\ Count(pipeline.out, ExpectedBadge(pipeline.doc)) = 1
        /\ Find(pipeline.out, BQ_OPEN, 1) = 1
        /\ Count(pipeline.out, MARKER_START) = 0

\* position of the first nested blockquote's opening tag
NestedOpen(html) == Find(html, BQ_OPEN, 2)

\* C9: a callout blockquote holding a nested ordinary blockquote gets exactly
\* one badge, before the nested quote; the nested quote, from its opening tag
\* on, is the same text before and after; and the nested quote is not matched
\* as a block of its own.
C9_NestedQuoteUntouched ==
    (CalloutDone /\ pipeline.doc.nested >= 1) =>
        /\ Count(pipeline.out, SPAN_OPEN) = 1
        /\ Find(pipeline.out, SPAN_CLOSE, 1) < NestedOpen(pipeline.out)
        /\ From(pipeline.out, NestedOpen(pipeline.out))
              = From(pipeline.html, NestedOpen(pipeline.html))
        /\ \A m \in Range(BlockMatches(pipeline.html, 1)) : m.open = 1

\* C10: preprocess_obsidian applied to its own output changes nothing: the
\* output holds no carriage return and no line the header pattern matches.
C10_PreprocessIdempotent ==
    pipeline.stage = "again" =>
        /\ pipeline.again = pipeline.pre
        /\ Count(pipeline.pre, <<CR>>) = 0
        /\ \A l \in Range(SplitLines(pipeline.pre)) : ~MatchCallout(l).matched

\* a header with a title, in a document with "\r" line ends, was rewritten
\* and went through preprocess_obsidian again
C10_Witness ==
    /\ pipeline.stage = "again"
    /\ pipeline.doc.header
    /\ Strip(pipeline.doc.title) # <<>>
    /\ pipeline.doc.eol = <<CR>>
    /\ pipeline.doc.body >= 1
    /\ Count(pipeline.pre, MARKER_START) = 1
    /\ pipeline.pre # pipeline.text

-----------------------------------------------------------------------------
(* Properties of the window's file list (Spec) *)

\* position of p in list, 0 when it is not there
Position(list, p) ==
    IF p \in Range(list) THEN CHOOSE i \in 1..Len(list) : list[i] = p ELSE 0

\* no path twice, every path resolved, existing and with the .md extension
\* (compared as the code compares it, without regard to case)
C11_Clean(list) ==
    /\ \A i, j \in 1..Len(list) : i # j => list[i] # list[j]
    /\ \A i \in 1..Len(list) :
          /\ Resolve(list[i]) = list[i]
          /\ Exists(list[i])
          /\ Lower(Suffix(Name(list[i]))) = MD_EXT

\* one step of the window: the paths that stay keep their order, the paths
\* that come in stand after all that were there, and a step that brings in no
\* new path and takes none out leaves the list as it was
C11_OrderKept ==
    /\ \A p, q \in Range(files) \cap Range(files') :
          Position(files, p) < Position(files, q)
              => Position(files', p) < Position(files', q)
    /\ \A p \in Range(files') \ Range(files) : \A q \in Range(files) \cap Range(files') :
          Position(files', q) < Position(files', p)
    /\ Range(files') = Range(files) => files' = files

\* C11: whatever was added, dropped, removed or cleared, the window's list and
\* the list handed to a batch hold no path twice and only resolved .md paths,
\* in the order they were put in; adding a path that is there changes nothing.
C11_ListDeduplicated ==
    /\ [](C11_Clean(files) /\ C11_Clean(task.files))
    /\ [](pc = "queued" => task.files = files)
    /\ [][C11_OrderKept]_vars

\* a batch was handed /a/c/y.md before /a/b/x.md, the order they were added in
C11_Witness ==
    /\ pc = "queued"
    /\ task.files = <<<<ROOT, DIR_A, DIR_C, Y_MD>>, <<ROOT, DIR_A, DIR_B, X_MD>>>>
    /\ files = task.files

-----------------------------------------------------------------------------
(* Properties of the automatic base folder (AutoSpec) *)

\* where the spec's resolver puts md_path under base: out / relative(parent,
\* base) / name.pdf
MirroredUnder(md_path, base) ==
    OUT_DIR \o SubSeq(Parent(md_path), Len(base) + 1, Len(Parent(md_path)))
            \o <<PdfName(md_path)>>

\* C12: with the structure kept and the base folder never picked by hand, the
\* base root a batch is given is the longest common ancestor directory of the
\* sources of that batch, and every rendered document lies under the output
\* folder as it lies under that ancestor.
C12_BaseIsCommonAncestor ==
    (task # NoTask /\ task.preserve_structure) =>
        LET base == DeepestCommonParent(task.files)
        IN /\ task.base_root = base
           /\ \A k \in 1..Len(results) :
                 results[k][3] = TRUE =>
                     results[k][2] = Str(MirroredUnder(task.files[k], base))

-----------------------------------------------------------------------------
(* Properties of the callout post-processing (TextSpec) *)

\* the content of the first blockquote match of html
FirstBlock(html) ==
    LET m == BlockMatches(html, 1)[1]
    IN SubSeq(html, m.open + Len(BQ_OPEN), m.close - 1)

\* the document is through transform_callouts, its html starts with a
\* blockquote and repl found a marker in that block
MarkerFound ==
    /\ pipeline.stage = "out"
    /\ StartsAt(pipeline.html, 1, BQ_OPEN)
    /\ BlockMatches(pipeline.html, 1) # <<>>
    /\ SearchMarker(FirstBlock(pipeline.html), 1).matched

\* C13: when a marker is found in a block, the badge opens the block's first
\* paragraph if the content has a paragraph, whatever whitespace or newline
\* stands before the paragraph's opening tag, and stands right at the start
\* of the content only when the content has no paragraph.
C13_BadgeInFirstParagraph ==
    MarkerFound =>
        LET out == pipeline.out
            first_p == Find(out, P_OPEN, 1)
            at_start == StartsAt(out, Len(BQ_OPEN) + 1, SPAN_OPEN)
        IN IF Find(FirstBlock(pipeline.html), P_OPEN, 1) # 0
           THEN /\ first_p # 0
                /\ StartsAt(out, first_p + Len(P_OPEN), SPAN_OPEN)
                /\ ~at_start
           ELSE at_start

NotSpace(c) == ~IsSpace(c)
\* s without its whitespace
Squeeze(s) == SelectSeq(s, NotSpace)

\* s without its first marker comment, from "<!--callout:" to the first "-->"
WithoutFirstComment(s) ==
    LET p == Find(s, MARKER_START, 1)
        e == Find(s, MARK_CLOSE, p + Len(MARKER_START))
    IN SubSeq(s, 1, p - 1) \o From(s, e + Len(MARK_CLOSE))

\* s without its first badge, from the opening to the closing span tag
WithoutBadge(s) ==
    LET p == Find(s, SPAN_OPEN, 1)
        e == Find(s, SPAN_CLOSE, p)
    IN IF p = 0 \/ e = 0 THEN s
       ELSE SubSeq(s, 1, p - 1) \o From(s, e + Len(SPAN_CLOSE))

\* C14: a block that holds a marker comment loses exactly one comment, its
\* first, which is the comment the badge was built from; the rest of the
\* block, a later duplicate marker included, is in the output as it was
\* (whitespace apart); a block without a marker comes out as it went in.
C14_FirstMarkerRemoved ==
    (pipeline.stage = "out" /\ BlockMatches(pipeline.html, 1) # <<>>) =>
        LET html == pipeline.html
            out == pipeline.out
            inner == FirstBlock(html)
        IN IF Count(inner, MARKER_START) = 0 THEN out = html
           ELSE /\ Count(out, MARKER_START) = Count(html, MARKER_START) - 1
                /\ SearchMarker(inner, 1).matched
                /\ SearchMarker(inner, 1).start = Find(inner, MARKER_START, 1)
                /\ Count(out, SPAN_OPEN) = 1
                /\ Squeeze(WithoutBadge(out)) = Squeeze(WithoutFirstComment(html))

-----------------------------------------------------------------------------
(* Properties of the destinations of one run (Spec) *)

\* C15: no two different documents of a run are rendered to the same
\* destination: a file written for one document is not written again for a
\* later one.
C15_NoOverwrite ==
    \A i, j \in 1..Len(results) :
        (/\ i < j
         /\ task.files[i] # task.files[j]
         /\ results[i][3] = TRUE
         /\ results[j][3] = TRUE) => results[i][2] # results[j][2]

====
